---------------------------- MODULE Spec2Model ----------------------------
(*************************************************************************)
(* Model of the keyboard input decoder FKeyboard of FINAL CUT            *)
(* (src/final/input/fkeyboard.cpp).                                      *)
(*                                                                       *)
(* Bytes are integers 0..255, key identifiers (FKey) are 32 bit unsigned *)
(* integers held in two's complement.                                    *)
(* Time is counted in ticks since time_keypressed; the                   *)
(* variable elapsed saturates at key_timeout.  Every public method is    *)
(* one action; the loops of parseKeyBuffer and processQueuedInput are    *)
(* recursive operators evaluated inside their action.                    *)
(*************************************************************************)
EXTENDS Integers, Sequences, FiniteSets, TLC

VARIABLES
  fifo_buf,                 \* char fifo_buf[FIFO_BUF_SIZE]
  fifo_offset,              \* int fifo_offset
  fifo_in_use,              \* bool fifo_in_use
  unprocessed_buffer_data,  \* bool unprocessed_buffer_data
  has_pending_input,        \* bool has_pending_input
  fkey,                     \* FKey fkey
  key,                      \* FKey key
  fkey_queue,               \* std::queue<FKey> fkey_queue
  elapsed,                  \* ticks since time_keypressed (saturating)
  mouse_support,            \* bool mouse_support
  utf8_input,               \* bool utf8_input
  key_cap,                  \* termcap key table (key_cap_ptr), <<>> if absent
  source,                   \* bytes waiting in the terminal device (stdin)
  plan,                     \* for each byte the terminal will still send,
                            \* the set of values it may have
  nread,                    \* number of bytes read from the source so far
  trace,                    \* history: pushes to the queue and callbacks
  non_blocking_stdin,       \* bool non_blocking_stdin
  stdin_status_flags,       \* the O_NONBLOCK bit of int stdin_status_flags
  disp                      \* what the last call did: the callbacks of
                            \* processQueuedInput, the results of the
                            \* classifier in fetchKeyCode

vars == << fifo_buf, fifo_offset, fifo_in_use, unprocessed_buffer_data,
           has_pending_input, fkey, key, fkey_queue, elapsed,
           mouse_support, utf8_input, key_cap, source, plan,
           nread, trace, non_blocking_stdin, stdin_status_flags, disp >>

bufvars == << fifo_buf, fifo_offset, fifo_in_use, unprocessed_buffer_data >>

cfgvars == << mouse_support, utf8_input, key_cap >>

modevars == << non_blocking_stdin, stdin_status_flags >>

-----------------------------------------------------------------------------
(* Bounds of the model *)

\* capacity of fifo_buf (scaled down)
FIFO_BUF_SIZE == 10
\* capacity bound of fkey_queue (scaled down)
MAX_QUEUE_SIZE == 2
\* key timeout in ticks (one tick stands for 50 ms)
key_timeout == 2
\* bytes the terminal sends in one run of the general specification
MaxBytes == 3
\* how far a string length computation may run past a full buffer
MaxOverRead == 1
\* code points taken around each boundary of the UTF-8 ranges
MaxDelta == 1
\* number of further code points sampled over the whole range
MaxSamples == 16

-----------------------------------------------------------------------------
(* Bytes *)

ESC == 27
ChO == 79
ChLBracket == 91
ChRBracket == 93
ChA == 65
ChD == 68
ChP == 80
ChM == 77
Chm == 109
Cha == 97
ChLess == 60
Ch0 == 48
Ch1 == 49
Ch9 == 57
ChTilde == 126
ChSpace == 32
ChBang == 33

-----------------------------------------------------------------------------
(* Key identifiers (enum class FKey) *)

None == 0
Ctrl_space == 16777253
Backspace == 16777471
Key_up == 16777478
Key_left == 16777476
Key_home == 16777479
Key_f1 == 16777482
Key_pf1 == 16777481
Meta_O == 33554511
Meta_left_square_bracket == 33554523
Meta_right_square_bracket == 33554525
Meta_a == 33554529
X11mouse == 50331648
Extended_mouse == 50331649
Urxvt_mouse == 50331650
\* the two largest values of the 32 bit type, in two's complement
Incomplete == -2
NOT_SET == -1

\* a < b for two 32 bit unsigned values held in two's complement
ULess(a, b) == IF (a >= 0) = (b >= 0) THEN a < b ELSE a >= 0

\* (ucs << 6) | x for a 32 bit unsigned ucs and 0 <= x < 64
ShiftLeft6Or(ucs, x) ==
  LET low26 == ucs % 67108864
  IN IF low26 < 33554432 THEN low26 * 64 + x
     ELSE ((low26 - 33554432) * 64 + x - 2147483647) - 1

MouseKeys == { X11mouse, Extended_mouse, Urxvt_mouse }

-----------------------------------------------------------------------------
(* Key tables *)

\* FKeyMap::getKeyMap() as compiled in, before the constructor sorts it
KeyMapData ==
  << [string |-> <<ESC, ChLBracket, Ch1, ChTilde>>, length |-> 4, num |-> Key_home],
     [string |-> <<ESC, ChLBracket, ChD>>, length |-> 3, num |-> Key_left],
     [string |-> <<ESC, ChO>>, length |-> 2, num |-> Meta_O],
     [string |-> <<ESC, ChLBracket, ChA>>, length |-> 3, num |-> Key_up],
     [string |-> <<ESC, ChLBracket>>, length |-> 2, num |-> Meta_left_square_bracket],
     [string |-> <<ESC, ChO, ChP>>, length |-> 3, num |-> Key_f1],
     [string |-> <<ESC, ChRBracket>>, length |-> 2, num |-> Meta_right_square_bracket],
     [string |-> <<ESC, Cha>>, length |-> 2, num |-> Meta_a] >>

\* insertion of e into a sequence sorted by ascending length
RECURSIVE InsertByLength(_, _)
InsertByLength(e, s) ==
  IF s = <<>> THEN <<e>>
  ELSE IF e.length < Head(s).length THEN <<e>> \o s
  ELSE <<Head(s)>> \o InsertByLength(e, Tail(s))

\* std::sort (key_map.begin(), key_map.end(), lhs.length < rhs.length)
RECURSIVE SortByLength(_)
SortByLength(s) ==
  IF s = <<>> THEN <<>>
  ELSE InsertByLength(Head(s), SortByLength(Tail(s)))

\* the generic table after FKeyboard::FKeyboard()
key_map == SortByLength(KeyMapData)

\* a termcap table as supplied by setTermcapMap()
KeyCapData ==
  << [string |-> <<ESC, ChO, ChP>>, length |-> 3, num |-> Key_pf1],
     [string |-> <<>>, length |-> 0, num |-> Key_home],
     [string |-> <<ESC, ChLBracket, ChD>>, length |-> 3, num |-> Key_left] >>

\* a termcap table whose entry for ESC [ D carries the key id 127
KeyCapDel ==
  << [string |-> <<ESC, ChLBracket, ChD>>, length |-> 3, num |-> 127] >>

\* a termcap table that lists ESC O P, which the generic table lists as
\* well, and a six byte sequence that has the form of an X11 mouse report
KeyCapReport ==
  << [string |-> <<ESC, ChLBracket, ChM, ChSpace, ChBang, ChBang>>,
      length |-> 6, num |-> Key_home],
     [string |-> <<ESC, ChO, ChP>>, length |-> 3, num |-> Key_pf1] >>

\* FKeyMap::getKeyName(): key ids and their names, as byte strings
\* ("", "Up", "Left", "Space", "Cursor up", "Esc")
KeyNameData ==
  << [string |-> <<>>, num |-> None],
     [string |-> <<85, 112>>, num |-> Key_up],
     [string |-> <<76, 101, 102, 116>>, num |-> Key_left],
     [string |-> <<83, 112, 97, 99, 101>>, num |-> ChSpace],
     [string |-> <<67, 117, 114, 115, 111, 114, 32, 117, 112>>, num |-> Key_up],
     [string |-> <<69, 115, 99>>, num |-> ESC] >>

-----------------------------------------------------------------------------
(* Helpers on the buffer *)

BufIdx == 0 .. (FIFO_BUF_SIZE - 1)

EmptyBuf == [i \in BufIdx |-> 0]

\* fifo_buf[i]; a read past the end of the array sees some later member
BufAt(buf, i) == IF i \in BufIdx THEN buf[i] ELSE 0

Min(a, b) == IF a < b THEN a ELSE b

\* for (n = len; n < FIFO_BUF_SIZE; n++) fifo_buf[n - len] = fifo_buf[n]
RECURSIVE RemoveEntry(_, _, _)
RemoveEntry(buf, len, n) ==
  IF n >= FIFO_BUF_SIZE THEN buf
  ELSE RemoveEntry([buf EXCEPT ![n - len] = buf[n]], len, n + 1)

\* for (n = n - len; n < FIFO_BUF_SIZE; n++) fifo_buf[n] = '\0'
RECURSIVE FillRest(_, _)
FillRest(buf, n) ==
  IF n >= FIFO_BUF_SIZE THEN buf
  ELSE FillRest([buf EXCEPT ![n] = 0], n + 1)

\* "Remove founded entry" and "Fill rest with '\0'"
ShiftLeft(buf, len) ==
  FillRest(RemoveEntry(buf, len, len), FIFO_BUF_SIZE - len)

\* stringLength(fifo_buf): index of the first NUL; for a buffer without a
\* NUL the scan leaves the array and stops ov bytes later
stringLength(buf, ov) ==
  IF \E i \in BufIdx : buf[i] = 0
    THEN CHOOSE i \in BufIdx : buf[i] = 0 /\ \A j \in 0 .. (i - 1) : buf[j] # 0
    ELSE FIFO_BUF_SIZE + ov

\* std::strncmp(kstr, fifo_buf, klen) == 0
strncmpEq(kstr, buf, klen) ==
  \A i \in 0 .. (klen - 1) : BufAt(buf, i) = kstr[i + 1]

\* FObject::isTimeout (time_keypressed, key_timeout)
isKeypressTimeout(el) == el >= key_timeout


-----------------------------------------------------------------------------
(* FKeyboard::UTF8decode *)

\* UTF8step with the mask of the 3 byte lead used for the 2 byte lead
UTF8step_mask(ucs, ch) ==
  IF (ch \div 64) * 64 = 128 THEN ShiftLeft6Or(ucs, ch % 64)
  ELSE IF ch < 128 THEN ch
  ELSE IF (ch \div 32) * 32 = 192 THEN ch % 16
  ELSE IF (ch \div 16) * 16 = 224 THEN ch % 16
  ELSE IF (ch \div 8) * 8 = 240 THEN ch % 8
  ELSE NOT_SET

\* one step of the loop body: fold byte ch into the accumulator ucs
UTF8step(ucs, ch) ==
  IF (ch \div 64) * 64 = 128 THEN ShiftLeft6Or(ucs, ch % 64)
  ELSE IF ch < 128 THEN ch
  ELSE IF (ch \div 32) * 32 = 192 THEN ch % 32
  ELSE IF (ch \div 16) * 16 = 224 THEN ch % 16
  ELSE IF (ch \div 8) * 8 = 240 THEN ch % 8
  ELSE NOT_SET

RECURSIVE UTF8fold(_, _, _)
UTF8fold(ucs, utf8, n) ==
  IF n = 0 THEN ucs
  ELSE UTF8fold(UTF8step(ucs, Head(utf8)), Tail(utf8), n - 1)

\* utf8 is the std::string, a sequence of bytes without NUL
UTF8decode(utf8) == UTF8fold(None, utf8, Min(Len(utf8), 4))

-----------------------------------------------------------------------------
(* The classifier: parseKeyString and the functions it calls.  Each      *)
(* returns the key together with the buffer and the flag it leaves.      *)

Result(k, buf, unproc) == [key |-> k, buf |-> buf, unproc |-> unproc]

\* getMouseProtocolKey that takes 5 bytes for a complete X11 report
getMouseProtocolKey_short(buf, off, ms) ==
  IF ~ms THEN NOT_SET
  ELSE IF off >= 5 /\ buf[1] = ChLBracket /\ buf[2] = ChM THEN X11mouse
  ELSE NOT_SET

\* getMouseProtocolKey that does not look at mouse_support
getMouseProtocolKey_always(buf, off, ms) ==
  IF off >= 6 /\ buf[1] = ChLBracket /\ buf[2] = ChM THEN X11mouse
  ELSE IF /\ buf[1] = ChLBracket /\ buf[2] = ChLess /\ off >= 9
          /\ BufAt(buf, off - 1) \in {ChM, Chm}
    THEN Extended_mouse
  ELSE IF /\ buf[1] = ChLBracket /\ buf[2] >= Ch1 /\ buf[2] <= Ch9
          /\ buf[3] >= Ch0 /\ buf[3] <= Ch9 /\ off >= 9
          /\ BufAt(buf, off - 1) = ChM
    THEN Urxvt_mouse
  ELSE NOT_SET

\* FKeyboard::getMouseProtocolKey
getMouseProtocolKey(buf, off, ms) ==
  IF ~ms THEN NOT_SET
  ELSE IF off >= 6 /\ buf[1] = ChLBracket /\ buf[2] = ChM THEN X11mouse
  ELSE IF /\ buf[1] = ChLBracket /\ buf[2] = ChLess /\ off >= 9
          /\ BufAt(buf, off - 1) \in {ChM, Chm}
    THEN Extended_mouse
  ELSE IF /\ buf[1] = ChLBracket /\ buf[2] >= Ch1 /\ buf[2] <= Ch9
          /\ buf[3] >= Ch0 /\ buf[3] <= Ch9 /\ off >= 9
          /\ BufAt(buf, off - 1) = ChM
    THEN Urxvt_mouse
  ELSE NOT_SET

\* std::find_if over a key table: index of the first entry of the given
\* length that equals the buffer front, 0 if there is none
FindKey(table, buf, buf_len, skipEmpty) ==
  LET hit(i) == /\ ~(skipEmpty /\ table[i].length = 0)
                /\ table[i].length = buf_len
                /\ strncmpEq(table[i].string, buf, table[i].length)
  IN IF \E i \in 1 .. Len(table) : hit(i)
       THEN CHOOSE i \in 1 .. Len(table) :
              hit(i) /\ \A j \in 1 .. (i - 1) : ~hit(j)
       ELSE 0

\* FKeyboard::getTermcapKey
getTermcapKey(buf, off, unproc, cap) ==
  IF Len(cap) = 0 THEN Result(NOT_SET, buf, unproc)
  ELSE LET found == FindKey(cap, buf, off, TRUE)
       IN IF found # 0
            THEN LET nb == ShiftLeft(buf, cap[found].length)
                 IN Result(cap[found].num, nb, nb[0] # 0)
            ELSE Result(NOT_SET, buf, unproc)

\* getKnownKey without the Incomplete rule for the two-byte prefixes
getKnownKey_eager(buf, off, unproc, to) ==
  LET found == FindKey(key_map, buf, off, FALSE)
  IN IF found # 0
       THEN LET nb == ShiftLeft(buf, key_map[found].length)
            IN Result(key_map[found].num, nb, nb[0] # 0)
       ELSE Result(NOT_SET, buf, unproc)

\* getKnownKey that removes one byte less than the entry found
getKnownKey_offByOne(buf, off, unproc, to) ==
  LET found == FindKey(key_map, buf, off, FALSE)
  IN IF found # 0
       THEN LET len == key_map[found].length
            IN IF /\ len = 2
                  /\ buf[1] \in {ChO, ChLBracket, ChRBracket}
                  /\ ~to
                 THEN Result(Incomplete, buf, unproc)
                 ELSE LET nb == ShiftLeft(buf, len - 1)
                      IN Result(key_map[found].num, nb, nb[0] # 0)
       ELSE Result(NOT_SET, buf, unproc)

\* FKeyboard::getKnownKey
getKnownKey(buf, off, unproc, to) ==
  LET found == FindKey(key_map, buf, off, FALSE)
  IN IF found # 0
       THEN LET len == key_map[found].length
            IN IF /\ len = 2
                  /\ buf[1] \in {ChO, ChLBracket, ChRBracket}
                  /\ ~to
                 THEN Result(Incomplete, buf, unproc)
                 ELSE LET nb == ShiftLeft(buf, len)
                      IN Result(key_map[found].num, nb, nb[0] # 0)
       ELSE Result(NOT_SET, buf, unproc)

\* the std::string built from utf8char.data(): the first len bytes of the
\* buffer up to the first NUL
RECURSIVE CString(_, _, _)
CString(buf, i, len) ==
  IF i >= len \/ BufAt(buf, i) = 0 THEN <<>>
  ELSE <<BufAt(buf, i)>> \o CString(buf, i + 1, len)

\* getSingleKey that computes the flag before it removes the key
getSingleKey_staleFlag(buf, unproc, to, u8, ov) ==
  LET firstchar == buf[0]
      isLead == u8 /\ (firstchar \div 64) * 64 = 192
      len == IF ~isLead THEN 1
             ELSE IF (firstchar \div 32) * 32 = 192 THEN 2
             ELSE IF (firstchar \div 16) * 16 = 224 THEN 3
             ELSE IF (firstchar \div 8) * 8 = 240 THEN 4
             ELSE 1
      buf_len == stringLength(buf, ov)
      keycode == IF isLead THEN UTF8decode(CString(buf, 0, len))
                 ELSE firstchar
      nb == ShiftLeft(buf, len)
      k1 == IF keycode = 0 THEN Ctrl_space ELSE keycode
      k2 == IF k1 = 127 THEN Backspace ELSE k1
  IN IF isLead /\ buf_len < len /\ ~to
       THEN Result(Incomplete, buf, unproc)
       ELSE Result(k2, nb, buf[0] # 0)

\* FKeyboard::getSingleKey
getSingleKey(buf, unproc, to, u8, ov) ==
  LET firstchar == buf[0]
      isLead == u8 /\ (firstchar \div 64) * 64 = 192
      len == IF ~isLead THEN 1
             ELSE IF (firstchar \div 32) * 32 = 192 THEN 2
             ELSE IF (firstchar \div 16) * 16 = 224 THEN 3
             ELSE IF (firstchar \div 8) * 8 = 240 THEN 4
             ELSE 1
      buf_len == stringLength(buf, ov)
      keycode == IF isLead THEN UTF8decode(CString(buf, 0, len))
                 ELSE firstchar
      nb == ShiftLeft(buf, len)
      k1 == IF keycode = 0 THEN Ctrl_space ELSE keycode
      k2 == IF k1 = 127 THEN Backspace ELSE k1
  IN IF isLead /\ buf_len < len /\ ~to
       THEN Result(Incomplete, buf, unproc)
       ELSE Result(k2, nb, nb[0] # 0)

\* parseKeyString that asks the generic table before the termcap table
parseKeyString_genericFirst(buf, off, unproc, to, ms, u8, cap, ov) ==
  IF buf[0] = ESC
    THEN LET mk == getMouseProtocolKey(buf, off, ms)
             tk == getTermcapKey(buf, off, unproc, cap)
             kk == getKnownKey(buf, off, unproc, to)
         IN IF mk # NOT_SET THEN Result(mk, buf, unproc)
            ELSE IF kk.key # NOT_SET THEN kk
            ELSE IF tk.key # NOT_SET THEN tk
            ELSE IF ~to THEN Result(Incomplete, buf, unproc)
            ELSE getSingleKey(buf, unproc, to, u8, ov)
    ELSE getSingleKey(buf, unproc, to, u8, ov)

\* FKeyboard::parseKeyString
parseKeyString(buf, off, unproc, to, ms, u8, cap, ov) ==
  IF buf[0] = ESC
    THEN LET mk == getMouseProtocolKey(buf, off, ms)
             tk == getTermcapKey(buf, off, unproc, cap)
             kk == getKnownKey(buf, off, unproc, to)
         IN IF mk # NOT_SET THEN Result(mk, buf, unproc)
            ELSE IF tk.key # NOT_SET THEN tk
            ELSE IF kk.key # NOT_SET THEN kk
            ELSE IF ~to THEN Result(Incomplete, buf, unproc)
            ELSE getSingleKey(buf, unproc, to, u8, ov)
    ELSE getSingleKey(buf, unproc, to, u8, ov)

\* FKeyboard::keyCorrection on a terminal that is not the Linux console
keyCorrection(keycode) == keycode

-----------------------------------------------------------------------------
(* The consumer of mouse reports behind mouse_tracking_cmd: it takes the *)
(* report from the front of the key buffer.                              *)

\* index of the first byte at or after position from that is in stop
RECURSIVE FirstOf(_, _, _)
FirstOf(buf, from, stop) ==
  IF from >= FIFO_BUF_SIZE - 1 \/ buf[from] \in stop THEN from
  ELSE FirstOf(buf, from + 1, stop)

mouseTracking(buf, k) ==
  IF k = X11mouse THEN ShiftLeft(buf, 6)
  ELSE IF k = Extended_mouse
    THEN ShiftLeft(buf, FirstOf(buf, 3, {ChM, Chm}) + 1)
  ELSE ShiftLeft(buf, FirstOf(buf, 2, {ChM}) + 1)

-----------------------------------------------------------------------------
(* FKeyboard::parseKeyBuffer.  The loops work on a record s of the       *)
(* fields they change; inside the call time_keypressed is the current    *)
(* time, so the timeout predicate is evaluated for an elapsed time of 0. *)

Snapshot ==
  [buf |-> fifo_buf, off |-> fifo_offset, in_use |-> fifo_in_use,
   unproc |-> unprocessed_buffer_data, pend |-> has_pending_input,
   fkey |-> fkey, key |-> key, queue |-> fkey_queue, src |-> source,
   nread |-> nread, trace |-> trace, disp |-> <<>>,
   nb |-> non_blocking_stdin, flags |-> stdin_status_flags]

\* a push that puts k at the front of the queue
Push_front(s, k) ==
  [s EXCEPT !.queue = <<k>> \o @,
            !.trace = Append(@, <<"push", k, s.nread>>)]

\* fkey_queue.push(k)
Push(s, k) ==
  [s EXCEPT !.queue = Append(@, k),
            !.trace = Append(@, <<"push", k, s.nread>>)]

\* a mouse branch that recomputes fifo_offset although the report has not
\* been taken from the buffer
MouseBranch_stale(s1, k, buf, off, mb, n) ==
  [s1 EXCEPT !.key = k,
             !.off = off,
             !.trace = Append(@, <<"mouse", k, s1.nread>>),
             !.disp = Append(@, <<"report", k, buf, off, s1.buf, s1.unproc,
                                  s1.buf, off>>)]

\* the mouse branch of the inner loop: key = fkey, mouseTracking(), which
\* leaves the buffer mb, and fifo_offset = int(stringLength(fifo_buf));
\* buf and off are the buffer and the offset the classifier was given
MouseBranch(s1, k, buf, off, mb, n) ==
  [s1 EXCEPT !.key = k,
             !.buf = mb,
             !.off = n,
             !.trace = Append(@, <<"mouse", k, s1.nread>>),
             !.disp = Append(@, <<"report", k, buf, off, s1.buf, s1.unproc,
                                  mb, n>>)]

\* "Read the rest from the fifo buffer": the inner while loop
RECURSIVE ResolveLoop(_, _, _, _, _, _)
ResolveLoop(s, to, ms, u8, cap, ov) ==
  IF ~(s.off > 0 /\ s.fkey # Incomplete) THEN s
  ELSE LET r == parseKeyString(s.buf, s.off, s.unproc, to, ms, u8, cap, ov)
           k == keyCorrection(r.key)
           s1 == [s EXCEPT !.buf = r.buf, !.unproc = r.unproc, !.fkey = k]
       IN IF k \in MouseKeys
            THEN LET mb == mouseTracking(s1.buf, k)
                 IN MouseBranch(s1, k, s.buf, s.off, mb, stringLength(mb, ov))
            ELSE IF k # Incomplete
              THEN LET s2 == Push(s1, k)
                   IN ResolveLoop(
                        [s2 EXCEPT !.off = stringLength(s2.buf, ov),
                                   !.disp = Append(@, <<"consume", k, s.buf,
                                                        s.off, r.buf, r.unproc>>)],
                        to, ms, u8, cap, ov)
              ELSE ResolveLoop(
                     [s1 EXCEPT !.disp = Append(@, <<"incomplete", k, s.buf,
                                                     s.off, r.buf, r.unproc>>)],
                     to, ms, u8, cap, ov)

\* an append that accepts one byte more than the buffer holds: the byte
\* lands behind the array
AppendByte_offByOne(s, c) ==
  IF s.off <= FIFO_BUF_SIZE
    THEN [s EXCEPT !.buf = IF s.off \in BufIdx THEN [@ EXCEPT ![s.off] = c]
                           ELSE @,
                   !.off = @ + 1,
                   !.in_use = TRUE]
    ELSE s

\* an append that puts the byte read at capacity over the last byte
AppendByte_overwrite(s, c) ==
  IF 1 + s.off <= FIFO_BUF_SIZE
    THEN [s EXCEPT !.buf = [@ EXCEPT ![s.off] = c],
                   !.off = @ + 1,
                   !.in_use = TRUE]
    ELSE [s EXCEPT !.buf = [@ EXCEPT ![FIFO_BUF_SIZE - 1] = c]]

\* an append that does not mark the buffer as in use
AppendByte_noFlag(s, c) ==
  IF 1 + s.off <= FIFO_BUF_SIZE
    THEN [s EXCEPT !.buf = [@ EXCEPT ![s.off] = c],
                   !.off = @ + 1]
    ELSE s

\* the append of read_character to the buffer
AppendByte(s, c) ==
  IF 1 + s.off <= FIFO_BUF_SIZE
    THEN [s EXCEPT !.buf = [@ EXCEPT ![s.off] = c],
                   !.off = @ + 1,
                   !.in_use = TRUE]
    ELSE s

\* FKeyboard::setNonBlockingInput on a descriptor that accepts F_SETFL
setNonBlockingInput(s, enable) ==
  IF enable = s.nb THEN s
  ELSE [s EXCEPT !.flags = enable, !.nb = enable]

\* FKeyboard::setNonBlockingInput; ok says that fcntl (F_SETFL) succeeds
setNonBlockingInputResult(s, enable, ok) ==
  IF enable = s.nb THEN s
  ELSE IF ok THEN [s EXCEPT !.flags = enable, !.nb = enable]
  ELSE [s EXCEPT !.flags = enable]

\* the blocking mode readKey leaves: setNonBlockingInput(), read(),
\* unsetNonBlockingInput()
readKeyMode(s) == setNonBlockingInput(setNonBlockingInput(s, TRUE), FALSE)

\* an outer loop that goes on reading when the queue is at capacity
RECURSIVE ReadLoop_noBreak(_, _, _, _, _, _)
ReadLoop_noBreak(s, to, ms, u8, cap, ov) ==
  IF s.src = <<>> THEN readKeyMode(s)
  ELSE LET s0 == readKeyMode(s)
           s1 == [s0 EXCEPT !.src = Tail(@), !.nread = @ + 1, !.pend = FALSE]
           s2 == AppendByte(s1, Head(s.src))
           s3 == ResolveLoop(s2, to, ms, u8, cap, ov)
       IN ReadLoop_noBreak([s3 EXCEPT !.fkey = None], to, ms, u8, cap, ov)

\* an outer loop that leaves has_pending_input as it is
RECURSIVE ReadLoop_keepPending(_, _, _, _, _, _)
ReadLoop_keepPending(s, to, ms, u8, cap, ov) ==
  IF s.src = <<>> THEN readKeyMode(s)
  ELSE LET s0 == readKeyMode(s)
           s1 == [s0 EXCEPT !.src = Tail(@), !.nread = @ + 1]
           s2 == AppendByte(s1, Head(s.src))
           s3 == ResolveLoop(s2, to, ms, u8, cap, ov)
           s4 == [s3 EXCEPT !.fkey = None]
       IN IF Len(s4.queue) >= MAX_QUEUE_SIZE THEN s4
          ELSE ReadLoop_keepPending(s4, to, ms, u8, cap, ov)

\* while ( (bytesread = readKey()) > 0 ): the outer loop
RECURSIVE ReadLoop(_, _, _, _, _, _)
ReadLoop(s, to, ms, u8, cap, ov) ==
  IF s.src = <<>> THEN readKeyMode(s)
  ELSE LET s0 == readKeyMode(s)
           s1 == [s0 EXCEPT !.src = Tail(@), !.nread = @ + 1, !.pend = FALSE]
           s2 == AppendByte(s1, Head(s.src))
           s3 == ResolveLoop(s2, to, ms, u8, cap, ov)
           s4 == [s3 EXCEPT !.fkey = None]
       IN IF Len(s4.queue) >= MAX_QUEUE_SIZE THEN s4
          ELSE ReadLoop(s4, to, ms, u8, cap, ov)

parseKeyBuffer(s, ms, u8, cap, ov) ==
  ReadLoop(s, isKeypressTimeout(0), ms, u8, cap, ov)

Install(s) ==
  /\ fifo_buf' = s.buf
  /\ fifo_offset' = s.off
  /\ fifo_in_use' = s.in_use
  /\ unprocessed_buffer_data' = s.unproc
  /\ has_pending_input' = s.pend
  /\ fkey' = s.fkey
  /\ key' = s.key
  /\ fkey_queue' = s.queue
  /\ source' = s.src
  /\ nread' = s.nread
  /\ trace' = s.trace
  /\ disp' = s.disp
  /\ non_blocking_stdin' = s.nb
  /\ stdin_status_flags' = s.flags

-----------------------------------------------------------------------------
(* FKeyboard::escapeKeyHandling and FKeyboard::substringKeyHandling *)

escapeKeyPart(s, to) ==
  IF /\ s.in_use /\ s.off = 1 /\ s.buf[0] = ESC /\ s.buf[1] = 0 /\ to
    THEN [s EXCEPT !.off = 0,
                   !.buf = [@ EXCEPT ![0] = 0],
                   !.in_use = FALSE,
                   !.unproc = FALSE,
                   !.trace = Append(@, <<"escape", ESC, s.nread>>)]
    ELSE s

\* substringKeyHandling that reports Meta-O for every prefix
substringKeyHandling_alwaysO(s, to) ==
  IF /\ s.in_use /\ s.off = 2 /\ s.buf[0] = ESC
     /\ s.buf[1] \in {ChO, ChLBracket, ChRBracket}
     /\ s.buf[2] = 0 /\ to
    THEN Push([s EXCEPT !.off = 0,
                        !.buf = [@ EXCEPT ![0] = 0],
                        !.in_use = FALSE,
                        !.unproc = FALSE,
                        !.fkey = Meta_O], Meta_O)
    ELSE s

substringKeyHandling(s, to) ==
  IF /\ s.in_use /\ s.off = 2 /\ s.buf[0] = ESC
     /\ s.buf[1] \in {ChO, ChLBracket, ChRBracket}
     /\ s.buf[2] = 0 /\ to
    THEN LET k == IF s.buf[1] = ChO THEN Meta_O
                  ELSE IF s.buf[1] = ChLBracket THEN Meta_left_square_bracket
                  ELSE Meta_right_square_bracket
             s1 == [s EXCEPT !.off = 0,
                             !.buf = [@ EXCEPT ![0] = 0],
                             !.in_use = FALSE,
                             !.unproc = FALSE,
                             !.fkey = k]
         IN Push(s1, k)
    ELSE s

escapeKeyHandling(s, to) == substringKeyHandling(escapeKeyPart(s, to), to)

-----------------------------------------------------------------------------
(* FKeyboard::processQueuedInput.  stopAt is the number of the callback  *)
(* of this call from which on FApplication::isQuit() answers true, 0 if  *)
(* it never does; c counts the callbacks made so far.                    *)

isQuit(c, stopAt) == stopAt > 0 /\ c >= stopAt

RECURSIVE DispatchLoop(_, _, _)
DispatchLoop(s, c, stopAt) ==
  IF s.queue = <<>> THEN s
  ELSE LET k == Head(s.queue)
           s1 == [s EXCEPT !.key = k, !.queue = Tail(@),
                           !.disp = Append(@, <<"pop", k>>)]
       IN IF ULess(None, k)
            THEN LET s2 == [s1 EXCEPT
                              !.trace = Append(@, <<"press", k, s.nread>>),
                              !.disp = @ \o << <<"press", k>>,
                                               <<"quit", isQuit(c + 1, stopAt)>> >>]
                     s3 == [s2 EXCEPT
                              !.disp = @ \o << <<"release", k>>,
                                               <<"quit", isQuit(c + 2, stopAt)>> >>]
                 IN IF isQuit(c + 1, stopAt) THEN s2
                    ELSE IF isQuit(c + 2, stopAt) THEN s3
                    ELSE DispatchLoop([s3 EXCEPT !.key = None], c + 2, stopAt)
            ELSE DispatchLoop(s1, c, stopAt)

\* a dispatch loop that checks the stop signal only after the release
RECURSIVE DispatchLoop_late(_, _, _)
DispatchLoop_late(s, c, stopAt) ==
  IF s.queue = <<>> THEN s
  ELSE LET k == Head(s.queue)
           s1 == [s EXCEPT !.key = k, !.queue = Tail(@),
                           !.disp = Append(@, <<"pop", k>>)]
           s3 == [s1 EXCEPT
                    !.trace = Append(@, <<"press", k, s.nread>>),
                    !.disp = @ \o << <<"press", k>>,
                                     <<"quit", isQuit(c + 1, stopAt)>>,
                                     <<"release", k>>,
                                     <<"quit", isQuit(c + 2, stopAt)>> >>]
       IN IF isQuit(c + 2, stopAt) THEN s3
          ELSE DispatchLoop_late([s3 EXCEPT !.key = None], c + 2, stopAt)

processQueuedInput_late(s, stopAt) == DispatchLoop_late(s, 0, stopAt)

\* processQueuedInput that resets the current key on every return
processQueuedInput_reset(s, stopAt) ==
  [DispatchLoop(s, 0, stopAt) EXCEPT !.key = None]

processQueuedInput(s, stopAt) == DispatchLoop(s, 0, stopAt)

-----------------------------------------------------------------------------
(* FKeyboard::getKeyName *)

\* std::find_if over the name table from entry i on: the index of the
\* first entry whose id is not None and equals keynum, 0 at the end
RECURSIVE FindName(_, _, _)
FindName(table, keynum, i) ==
  IF i > Len(table) THEN 0
  ELSE IF table[i].num # None /\ table[i].num = keynum THEN i
  ELSE FindName(table, keynum, i + 1)

\* getKeyName that takes 32 and 127 for printable characters
getKeyName_wide(keynum) ==
  LET found_key == FindName(KeyNameData, keynum, 1)
  IN IF found_key # 0 THEN KeyNameData[found_key].string
     ELSE IF ~ULess(keynum, 32) /\ ~ULess(127, keynum) THEN <<keynum>>
     ELSE <<>>

getKeyName(keynum) ==
  LET found_key == FindName(KeyNameData, keynum, 1)
  IN IF found_key # 0 THEN KeyNameData[found_key].string
     ELSE IF ULess(32, keynum) /\ ULess(keynum, 127) THEN <<keynum>>
     ELSE <<>>

-----------------------------------------------------------------------------
(* Actions *)

\* the values the next byte of the terminal may have
Sendable == IF plan = <<>> THEN {} ELSE Head(plan)

\* the terminal sends byte b
Arrive(b) ==
  /\ plan # <<>>
  /\ b \in Head(plan)
  /\ source' = Append(source, b)
  /\ plan' = Tail(plan)
  /\ disp' = <<>>
  /\ UNCHANGED << bufvars, has_pending_input, fkey, key, fkey_queue,
                  elapsed, cfgvars, modevars, nread, trace >>

\* a tick of the clock passes
Tick ==
  /\ elapsed < key_timeout
  /\ elapsed' = elapsed + 1
  /\ disp' = <<>>
  /\ UNCHANGED << bufvars, has_pending_input, fkey, key, fkey_queue,
                  cfgvars, modevars, source, plan, nread, trace >>

\* FKeyboard::isKeyPressed (blocking_time): pend is has_pending_input,
\* readable what select() finds, bt is blocking_time > 0, nb is
\* non_blocking_input_support; the answer is the value returned, the new
\* flag and the number of select() calls made
isKeyPressed(pend, readable, bt, nb) ==
  IF pend THEN [ret |-> FALSE, pend |-> pend, polls |-> 0]
  ELSE IF bt /\ nb /\ readable
    THEN [ret |-> TRUE, pend |-> TRUE, polls |-> 1]
  ELSE [ret |-> readable, pend |-> readable,
        polls |-> IF bt /\ nb THEN 2 ELSE 1]

IsKeyPressed ==
  /\ \E bt \in BOOLEAN, nb \in BOOLEAN :
       has_pending_input' =
         isKeyPressed(has_pending_input, source # <<>>, bt, nb).pend
  /\ disp' = <<>>
  /\ UNCHANGED << bufvars, fkey, key, fkey_queue, elapsed, cfgvars,
                  modevars,
                  source, plan, nread, trace >>

\* uInt64 FKeyboard::read_blocking_time, in microseconds
read_blocking_time == 100000
\* uInt64 FKeyboard::read_blocking_time_short, in microseconds
read_blocking_time_short == 5000

\* the ticks that pass while a select() waits tv microseconds to the end:
\* read_blocking_time is as long as the key timeout, the short time is
\* less than a tick
WaitTicks(tv) == IF tv >= read_blocking_time THEN key_timeout ELSE 0

\* isKeyPressedTimed that takes the long wait while keys are arriving and
\* the short one after the timeout
isKeyPressedTimed_swapped(pend, readable, blocking_time, nb, to, later) ==
  IF pend THEN [ret |-> FALSE, pend |-> pend, polls |-> 0, wait |-> <<>>]
  ELSE IF blocking_time > 0 /\ nb /\ readable
    THEN [ret |-> TRUE, pend |-> TRUE, polls |-> 1, wait |-> <<>>]
  ELSE LET tv == IF to \/ ~nb THEN read_blocking_time_short
                 ELSE blocking_time
           found == readable \/ (tv > 0 /\ later)
       IN [ret |-> found, pend |-> found,
           polls |-> IF blocking_time > 0 /\ nb THEN 2 ELSE 1,
           wait |-> <<tv>>]

\* FKeyboard::isKeyPressed (blocking_time) with the time its second
\* select() waits: readable is what a select() finds at once, later says
\* that a byte arrives while a select() with a positive time waits, to is
\* isKeypressTimeout(); wait is <<tv.tv_usec>> of the second select(), <<>>
\* if it is not reached
isKeyPressedTimed(pend, readable, blocking_time, nb, to, later) ==
  IF pend THEN [ret |-> FALSE, pend |-> pend, polls |-> 0, wait |-> <<>>]
  ELSE IF blocking_time > 0 /\ nb /\ readable
    THEN [ret |-> TRUE, pend |-> TRUE, polls |-> 1, wait |-> <<>>]
  ELSE LET tv == IF to \/ ~nb THEN blocking_time
                 ELSE read_blocking_time_short
           found == readable \/ (tv > 0 /\ later)
       IN [ret |-> found, pend |-> found,
           polls |-> IF blocking_time > 0 /\ nb THEN 2 ELSE 1,
           wait |-> <<tv>>]

\* the blocking times a caller passes
BlockingTimes == {0, read_blocking_time}

\* what the terminal may send while a select() waits: nothing or its
\* next byte
MaySend == {<<>>} \cup { <<b>> : b \in Sendable }

\* the byte that arrives during a call of isKeyPressed with answer r:
\* the terminal was about to send later, and it does if the second
\* select() waits a positive time on an empty source
SentDuring(r, later) ==
  IF r.wait # <<>> /\ r.wait # <<0>> /\ source = <<>> THEN later ELSE <<>>

\* the state a call of isKeyPressed leaves: r is its answer, sent the byte
\* that arrived during the wait
PollDone(blocking_time, nb, r, sent) ==
  /\ has_pending_input' = r.pend
  /\ source' = source \o sent
  /\ plan' = IF sent = <<>> THEN plan ELSE Tail(plan)
  /\ elapsed' = IF r.wait # <<>> /\ ~r.ret
                  THEN Min(key_timeout, elapsed + WaitTicks(r.wait[1]))
                  ELSE elapsed
  /\ disp' = << <<"isKeyPressed", blocking_time, nb, r.ret, r.wait,
                  r.polls>> >>
  /\ UNCHANGED << bufvars, fkey, key, fkey_queue, cfgvars, modevars, nread,
                  trace >>

\* FKeyboard::isKeyPressed (blocking_time), the wait included
IsKeyPressedTimed ==
  \E blocking_time \in BlockingTimes, nb \in BOOLEAN, later \in MaySend :
    PollDone(blocking_time, nb,
             isKeyPressedTimed(has_pending_input, source # <<>>,
                               blocking_time, nb, isKeypressTimeout(elapsed),
                               later # <<>>),
             SentDuring(isKeyPressedTimed(has_pending_input, source # <<>>,
                                          blocking_time, nb,
                                          isKeypressTimeout(elapsed),
                                          later # <<>>), later))

\* fetchKeyCode that still reads when the queue is exactly at capacity
FetchKeyCode_atCapacity(ov) ==
  /\ UNCHANGED << cfgvars, plan >>
  /\ IF Len(fkey_queue) <= MAX_QUEUE_SIZE
       THEN /\ elapsed' = 0
            /\ Install(parseKeyBuffer(Snapshot, mouse_support, utf8_input,
                                      key_cap, ov))
       ELSE /\ disp' = <<>>
            /\ UNCHANGED << bufvars, has_pending_input, fkey, key, fkey_queue,
                            elapsed, source, nread, trace, modevars >>

\* FKeyboard::fetchKeyCode
FetchKeyCode(ov) ==
  /\ UNCHANGED << cfgvars, plan >>
  /\ IF Len(fkey_queue) < MAX_QUEUE_SIZE
       THEN /\ elapsed' = 0
            /\ Install(parseKeyBuffer(Snapshot, mouse_support, utf8_input,
                                      key_cap, ov))
       ELSE /\ disp' = <<>>
            /\ UNCHANGED << bufvars, has_pending_input, fkey, key, fkey_queue,
                            elapsed, source, nread, trace, modevars >>

\* FKeyboard::fetchKeyCode whose first read() answers 0 or -1 although
\* the terminal has sent a byte (end of file, or an interrupted call): the
\* loop of parseKeyBuffer is not entered, the call sets time_keypressed
\* and runs the one readKey()
FetchKeyCodeNoRead ==
  /\ Len(fkey_queue) < MAX_QUEUE_SIZE
  /\ elapsed' = 0
  /\ Install([readKeyMode(Snapshot) EXCEPT !.disp = << <<"read", FALSE>> >>])
  /\ UNCHANGED << cfgvars, plan >>

\* FKeyboard::escapeKeyHandling
EscapeKeyHandling ==
  /\ Install(escapeKeyHandling(Snapshot, isKeypressTimeout(elapsed)))
  /\ UNCHANGED << elapsed, cfgvars, plan >>

\* FKeyboard::clearKeyBuffer
clearKeyBuffer ==
  /\ fifo_offset' = 0
  /\ fkey' = None
  /\ key' = None
  /\ fifo_buf' = EmptyBuf
  /\ fifo_in_use' = FALSE

ClearKeyBuffer ==
  /\ clearKeyBuffer
  /\ disp' = <<>>
  /\ UNCHANGED << unprocessed_buffer_data, has_pending_input, fkey_queue,
                  elapsed, cfgvars, modevars, source, plan, nread, trace >>

\* clearKeyBufferOnTimeout that does not ask for the timeout
ClearKeyBufferOnTimeout_noTimeout ==
  /\ disp' = <<>>
  /\ UNCHANGED << unprocessed_buffer_data, has_pending_input, fkey_queue,
                  elapsed, cfgvars, modevars, source, plan, nread, trace >>
  /\ IF fifo_in_use
       THEN clearKeyBuffer
       ELSE UNCHANGED << fifo_buf, fifo_offset, fifo_in_use, fkey, key >>

\* FKeyboard::clearKeyBufferOnTimeout
ClearKeyBufferOnTimeout ==
  /\ disp' = <<>>
  /\ UNCHANGED << unprocessed_buffer_data, has_pending_input, fkey_queue,
                  elapsed, cfgvars, modevars, source, plan, nread, trace >>
  /\ IF fifo_in_use /\ isKeypressTimeout(elapsed)
       THEN clearKeyBuffer
       ELSE UNCHANGED << fifo_buf, fifo_offset, fifo_in_use, fkey, key >>

\* FKeyboard::processQueuedInput
ProcessQueuedInput(stopAt) ==
  LET s == processQueuedInput([queue |-> fkey_queue, key |-> key,
                               trace |-> trace, disp |-> <<>>,
                               nread |-> nread], stopAt)
  IN /\ fkey_queue' = s.queue
     /\ key' = s.key
     /\ trace' = s.trace
     /\ disp' = s.disp
     /\ UNCHANGED << bufvars, has_pending_input, fkey, elapsed, cfgvars,
                     modevars,
                     source, plan, nread >>

\* FKeyboard::hasUnprocessedInput returns a reference to the flag: the
\* caller assigns b through it
SetUnprocessedInput(b) ==
  /\ unprocessed_buffer_data' = b
  /\ disp' = <<>>
  /\ UNCHANGED << fifo_buf, fifo_offset, fifo_in_use, has_pending_input,
                  fkey, key, fkey_queue, elapsed, cfgvars, modevars, source,
                  plan,
                  nread, trace >>

\* FKeyboard::setNonBlockingInput (enable)
SetNonBlockingInput(enable) ==
  LET s == setNonBlockingInput([nb |-> non_blocking_stdin,
                                flags |-> stdin_status_flags], enable)
  IN /\ non_blocking_stdin' = s.nb
     /\ stdin_status_flags' = s.flags
     /\ disp' = <<>>
     /\ UNCHANGED << bufvars, has_pending_input, fkey, key, fkey_queue,
                     elapsed, cfgvars, source, plan, nread, trace >>

\* FKeyboard::setNonBlockingInput (enable) on a descriptor whose
\* fcntl (F_SETFL) succeeds (ok) or fails; the value returned is kept in
\* disp
SetNonBlockingInputResult(enable, ok) ==
  LET s == setNonBlockingInputResult([nb |-> non_blocking_stdin,
                                      flags |-> stdin_status_flags],
                                     enable, ok)
  IN /\ non_blocking_stdin' = s.nb
     /\ stdin_status_flags' = s.flags
     /\ disp' = << <<"mode", enable, ok, s.nb>> >>
     /\ UNCHANGED << bufvars, has_pending_input, fkey, key, fkey_queue,
                     elapsed, cfgvars, source, plan, nread, trace >>

Next ==
  \/ \E b \in Sendable : Arrive(b)
  \/ Tick
  \/ IsKeyPressed
  \/ \E ov \in 0 .. MaxOverRead : FetchKeyCode(ov)
  \/ EscapeKeyHandling
  \/ ClearKeyBuffer
  \/ ClearKeyBufferOnTimeout
  \/ \E stopAt \in 0 .. (2 * Len(fkey_queue)) : ProcessQueuedInput(stopAt)

\* the key ids a host asks the name of
NameQueries ==
  { None, Key_up, Key_left, Meta_O, ESC, ChSpace, ChBang, Cha, ChTilde, 127,
    Ctrl_space, Incomplete, NOT_SET }

\* FKeyboard::getKeyName (keynum), the name returned kept in disp
GetKeyName(keynum) ==
  /\ disp' = << <<"name", keynum, getKeyName(keynum)>> >>
  /\ UNCHANGED << bufvars, has_pending_input, fkey, key, fkey_queue,
                  elapsed, cfgvars, modevars, source, plan, nread, trace >>

\* the methods of the decoder for a host that also writes the flag behind
\* hasUnprocessedInput(), switches the blocking mode of stdin and asks
\* for key names
NextHost ==
  \/ Next
  \/ \E b \in BOOLEAN : SetUnprocessedInput(b)
  \/ \E enable \in BOOLEAN : SetNonBlockingInput(enable)
  \/ \E keynum \in NameQueries : GetKeyName(keynum)

-----------------------------------------------------------------------------
(* Initial states: the decoder after construction, for a terminal        *)
(* configuration and the bytes the terminal is going to send.            *)

InitDecoder ==
  /\ fifo_buf = EmptyBuf
  /\ fifo_offset = 0
  /\ fifo_in_use = FALSE
  /\ unprocessed_buffer_data = FALSE
  /\ has_pending_input = FALSE
  /\ fkey = None
  /\ key = None
  /\ fkey_queue = <<>>
  /\ elapsed = key_timeout
  /\ source = <<>>
  /\ nread = 0
  /\ trace = <<>>
  /\ disp = <<>>
  /\ non_blocking_stdin = FALSE
  /\ stdin_status_flags = FALSE

\* the plan of a terminal that sends exactly the bytes of str
Singles(str) == [i \in 1 .. Len(str) |-> {str[i]}]

\* a 6 byte X11 mouse report
X11Report == <<ESC, ChLBracket, ChM, ChSpace, ChBang, ChBang>>

\* ESC, '[' and a printable character in any order, no mouse, no termcap
\* table
Init ==
  /\ InitDecoder
  /\ mouse_support = FALSE
  /\ utf8_input = FALSE
  /\ key_cap = <<>>
  /\ plan = [i \in 1 .. MaxBytes |-> {ESC, ChLBracket, Cha}]

Spec == Init /\ [][Next]_vars

\* the terminal sends an X11 mouse report and one more byte, mouse
\* reporting enabled
InitMouse ==
  /\ InitDecoder
  /\ mouse_support = TRUE
  /\ utf8_input = FALSE
  /\ key_cap = <<>>
  /\ plan = Singles(X11Report) \o <<{Cha, ESC}>>

SpecMouse == InitMouse /\ [][Next]_vars

\* the terminal sends one of the sequences of the key tables: followed by
\* one free byte, with or without a termcap table, or after the bytes of
\* a Meta-[ key press
InitTable ==
  /\ InitDecoder
  /\ mouse_support = FALSE
  /\ utf8_input = FALSE
  /\ \E n \in 1 .. Len(key_map) :
       \/ /\ key_cap \in {<<>>, KeyCapData}
          /\ plan = Singles(key_map[n].string) \o <<{Cha, ESC}>>
       \/ /\ key_cap = <<>>
          /\ plan = <<{ESC}, {ChLBracket}>> \o Singles(key_map[n].string)

SpecTable == InitTable /\ [][Next]_vars

\* the UTF-8 encoding of code point c (RFC 3629)
Encode(c) ==
  IF c < 128 THEN <<c>>
  ELSE IF c < 2048 THEN <<192 + (c \div 64), 128 + (c % 64)>>
  ELSE IF c < 65536
    THEN <<224 + (c \div 4096), 128 + ((c \div 64) % 64), 128 + (c % 64)>>
  ELSE <<240 + (c \div 262144), 128 + ((c \div 4096) % 64),
         128 + ((c \div 64) % 64), 128 + (c % 64)>>

\* code points of [0x80, 0x10FFFF]: those next to the boundaries of the
\* 2, 3 and 4 byte ranges and a sample spread over the whole range
CodePoints ==
  { b + d : b \in {128, 2048, 65536}, d \in 0 .. MaxDelta }
    \cup { b - d : b \in {2047, 65535, 1114111}, d \in 0 .. MaxDelta }
    \cup { 128 + k * ((1114111 - 128) \div MaxSamples) : k \in 0 .. MaxSamples }

\* first bytes that have the top two bits set and match no lead pattern
MalformedLeads == 248 .. 255

\* bytes that decode to 0 or 127 or not at all: NUL, DEL, the leads of the
\* overlong encodings of 0 and 127, and two malformed leads
RawFirstBytes == {0, 127, 192, 193, 248, 255}

\* UTF-8 enabled; the terminal sends the UTF-8 encoding of a code point
\* and ESC, or the bytes of a Meta-[ key press and the lead byte of a two
\* byte encoding, or two raw bytes, or the lead byte of a two byte
\* encoding, NUL and a letter
InitUTF8 ==
  /\ InitDecoder
  /\ mouse_support = FALSE
  /\ utf8_input = TRUE
  /\ key_cap = <<>>
  /\ \/ \E c \in CodePoints : plan = Singles(Encode(c)) \o <<{ESC}>>
     \/ plan = <<{ESC}, {ChLBracket}, {Head(Encode(128))}>>
     \/ plan = <<RawFirstBytes, {128, 191, Cha}>>
     \/ plan = <<{Head(Encode(128))}, {0}, {Cha}>>

SpecUTF8 == InitUTF8 /\ [][Next]_vars

\* the general specification for a host that also assigns through the
\* reference returned by hasUnprocessedInput() and calls
\* setNonBlockingInput()
InitHost ==
  /\ InitDecoder
  /\ mouse_support = FALSE
  /\ utf8_input = FALSE
  /\ key_cap = <<>>
  /\ plan = <<{ESC, Cha}, {ChLBracket, Cha}>>

SpecHost == InitHost /\ [][NextHost]_vars

\* a termcap table that maps ESC [ D to the key id 127; the terminal
\* sends ESC [ D and NUL or DEL, in either order, or NUL or DEL after the
\* bytes of a Meta-[ or Meta-a key press
InitCap ==
  /\ InitDecoder
  /\ mouse_support = FALSE
  /\ utf8_input = FALSE
  /\ key_cap = KeyCapDel
  /\ \/ plan = Singles(<<ESC, ChLBracket, ChD>>) \o <<{0, 127}>>
     \/ plan = <<{0, 127}>> \o Singles(<<ESC, ChLBracket, ChD>>)
     \/ plan = <<{ESC}, {ChLBracket, Cha}, {0, 127}>>

SpecCap == InitCap /\ [][Next]_vars

\* a termcap table that overlaps the generic table and the X11 report
\* format; the terminal sends a letter and an X11 mouse report with mouse
\* reporting enabled, the report alone with mouse reporting disabled, or
\* a three byte sequence that one table, both or none of them list
InitReport ==
  /\ InitDecoder
  /\ utf8_input = FALSE
  /\ key_cap = KeyCapReport
  /\ \/ /\ mouse_support = TRUE
        /\ plan = <<{Cha}>> \o Singles(X11Report)
     \/ /\ mouse_support = FALSE
        /\ plan = Singles(X11Report)
     \/ /\ mouse_support \in BOOLEAN
        /\ plan = <<{ESC}, {ChO, ChLBracket}, {ChP, ChA}>>

SpecReport == InitReport /\ [][Next]_vars

\* nine bytes that start like a urxvt mouse report and have an 'M' before
\* the final one, the byte between the two being NUL or a letter
EarlyUrxvt ==
  Singles(<<ESC, ChLBracket, Ch1, Ch1, Cha, Cha, ChM>>) \o <<{0, Cha}, {ChM}>>

\* the methods a host runs while a burst of bytes arrives within the key
\* timeout: it polls, reads and dispatches
NextBurst ==
  \/ \E b \in Sendable : Arrive(b)
  \/ Tick
  \/ IsKeyPressed
  \/ \E ov \in 0 .. MaxOverRead : FetchKeyCode(ov)
  \/ \E stopAt \in 0 .. (2 * Len(fkey_queue)) : ProcessQueuedInput(stopAt)

\* mouse reporting enabled; the terminal sends these nine bytes
InitUrxvt ==
  /\ InitDecoder
  /\ mouse_support = TRUE
  /\ utf8_input = FALSE
  /\ key_cap = <<>>
  /\ plan = EarlyUrxvt

SpecUrxvt == InitUrxvt /\ [][NextBurst]_vars

\* the terminal sends ESC bytes, as many as the buffer holds, and one
\* more byte
InitFull ==
  /\ InitDecoder
  /\ mouse_support = FALSE
  /\ utf8_input = FALSE
  /\ key_cap = <<>>
  /\ plan = [i \in 1 .. FIFO_BUF_SIZE |-> {ESC}] \o <<{ESC, Cha}>>

SpecFull == InitFull /\ [][Next]_vars

\* an SGR mouse report that fills the buffer to its last byte
BrimReport ==
  <<ESC, ChLBracket, ChLess>> \o [i \in 1 .. (FIFO_BUF_SIZE - 4) |-> Ch1]
    \o <<ChM>>

\* a termcap table that lists these bytes as the sequence of a key
KeyCapBrim ==
  << [string |-> BrimReport, length |-> FIFO_BUF_SIZE, num |-> Key_f1] >>

\* the terminal sends a sequence that fills the buffer to capacity with
\* non-zero bytes and one more byte: an SGR mouse report with mouse
\* reporting enabled, or the sequence of the termcap table
InitBrim ==
  /\ InitDecoder
  /\ utf8_input = FALSE
  /\ \/ /\ mouse_support = TRUE
        /\ key_cap = <<>>
        /\ plan = Singles(BrimReport) \o <<{Cha}>>
     \/ /\ mouse_support = FALSE
        /\ key_cap = KeyCapBrim
        /\ plan = Singles(KeyCapBrim[1].string) \o <<{Cha}>>

SpecBrim == InitBrim /\ [][NextBurst]_vars

\* the methods of the decoder for a host whose polls wait for input and
\* whose read() may fail
NextPoll ==
  \/ \E b \in Sendable : Arrive(b)
  \/ Tick
  \/ IsKeyPressedTimed
  \/ \E ov \in 0 .. MaxOverRead : FetchKeyCode(ov)
  \/ FetchKeyCodeNoRead
  \/ EscapeKeyHandling
  \/ ClearKeyBufferOnTimeout
  \/ \E stopAt \in 0 .. (2 * Len(fkey_queue)) : ProcessQueuedInput(stopAt)

\* the terminal sends ESC or a letter, and two letters
InitPoll ==
  /\ InitDecoder
  /\ mouse_support = FALSE
  /\ utf8_input = FALSE
  /\ key_cap = <<>>
  /\ plan = <<{ESC, Cha}, {Cha}, {Cha}>>

SpecPoll == InitPoll /\ [][NextPoll]_vars

\* the methods of the decoder for a host that switches the blocking mode
\* of a stdin whose fcntl() may fail
NextMode ==
  \/ Next
  \/ \E enable \in BOOLEAN, ok \in BOOLEAN :
       SetNonBlockingInputResult(enable, ok)

SpecMode == InitHost /\ [][NextMode]_vars

-----------------------------------------------------------------------------
(* Vocabulary of the properties *)

FetchStep == \E ov \in 0 .. MaxOverRead : FetchKeyCode(ov)

ProcessStep ==
  \E stopAt \in 0 .. (2 * Len(fkey_queue)) : ProcessQueuedInput(stopAt)

\* the entries of kind kd in a history, in order
RECURSIVE OfKind(_, _)
OfKind(tr, kd) ==
  IF tr = <<>> THEN <<>>
  ELSE IF Head(tr)[1] = kd THEN <<Head(tr)>> \o OfKind(Tail(tr), kd)
  ELSE OfKind(Tail(tr), kd)

\* the keys of the entries of kind kd in a history, in order
KeysOf(tr, kd) == LET es == OfKind(tr, kd) IN [i \in 1 .. Len(es) |-> es[i][2]]

\* what a step added to the history
Added == SubSeq(trace', Len(trace) + 1, Len(trace'))

\* the buffer holds exactly the bytes str: they are its first Len(str)
\* bytes and fifo_offset is their number
Holds(str) ==
  /\ fifo_offset = Len(str)
  /\ \A i \in 1 .. Len(str) : fifo_buf[i - 1] = str[i]

MetaPrefixKey(b) ==
  IF b = ChO THEN Meta_O
  ELSE IF b = ChLBracket THEN Meta_left_square_bracket
  ELSE Meta_right_square_bracket

MetaPrefixKeys == { Meta_O, Meta_left_square_bracket, Meta_right_square_bracket }

-----------------------------------------------------------------------------
(* Properties *)

\* C1: whenever the buffer holds a lone ESC byte and the key timeout has
\* elapsed, a call of escapeKeyHandling invokes the escape-key callback
\* exactly once, pushes nothing to the key queue and empties the buffer,
\* so that later calls report no further Escape.
C1_LoneEscapeReported ==
  [][ (EscapeKeyHandling /\ Holds(<<ESC>>) /\ isKeypressTimeout(elapsed))
        => /\ Added = << <<"escape", ESC, nread>> >>
           /\ fkey_queue' = fkey_queue
           /\ fifo_offset' = 0 ]_vars

\* C2: whenever the buffer holds ESC followed by 'O', '[' or ']' and the
\* key timeout has elapsed, a call of escapeKeyHandling pushes exactly one
\* event, the Meta key of the second byte, and empties the buffer; a call
\* on an empty buffer pushes nothing.
C2_MetaPrefixAfterTimeout ==
  [][ /\ \A b \in {ChO, ChLBracket, ChRBracket} :
           (EscapeKeyHandling /\ Holds(<<ESC, b>>) /\ isKeypressTimeout(elapsed))
             => /\ fkey_queue' = Append(fkey_queue, MetaPrefixKey(b))
                /\ Added = << <<"push", MetaPrefixKey(b), nread>> >>
                /\ fifo_offset' = 0
      /\ (EscapeKeyHandling /\ fifo_offset = 0)
            => (fkey_queue' = fkey_queue /\ Added = <<>>) ]_vars

\* a Meta-[ event was pushed by substringKeyHandling and the buffer is empty
C2_Witness ==
  /\ fkey_queue = <<Meta_left_square_bracket>>
  /\ trace = << <<"push", Meta_left_square_bracket, 2>> >>
  /\ fifo_offset = 0
  /\ ~fifo_in_use

\* C5: the key queue never holds more than MAX_QUEUE_SIZE events.
C5_QueueBounded == Len(fkey_queue) <= MAX_QUEUE_SIZE


\* the entries of the generic table that consist of ESC and 'O', '[' or ']'
MetaPrefixEntries ==
  { n \in 1 .. Len(key_map) :
      /\ key_map[n].length = 2
      /\ key_map[n].string[2] \in {ChO, ChLBracket, ChRBracket} }

\* the entries of the generic table that extend one of these prefixes
LongEntries ==
  { n \in 1 .. Len(key_map) :
      /\ key_map[n].length >= 3
      /\ key_map[n].string[2] \in {ChO, ChLBracket, ChRBracket} }

\* the buffer holds the first j bytes of str and the source holds exactly
\* the bytes of str up to its m-th, which a fetchKeyCode call can read
ReadsUpTo(str, j, m) ==
  /\ Holds(SubSeq(str, 1, j))
  /\ m = j + Len(source)
  /\ source # <<>>
  /\ m <= Len(str)
  /\ source = SubSeq(str, j + 1, m)
  /\ Len(fkey_queue) < MAX_QUEUE_SIZE

\* a fetchKeyCode step that completes str enqueues exactly num and leaves
\* the buffer drained
Completes(num) ==
  /\ fkey_queue' = Append(fkey_queue, num)
  /\ Added = << <<"push", num, nread'>> >>
  /\ fifo_offset' = 0
  /\ fifo_buf' = EmptyBuf
  /\ ~unprocessed_buffer_data'

\* a fetchKeyCode step that reads str up to its m-th byte enqueues
\* nothing and keeps these bytes buffered
KeepsPrefix(str, m) ==
  /\ fkey_queue' = fkey_queue
  /\ Added = <<>>
  /\ fifo_offset' = m
  /\ \A i \in 1 .. m : fifo_buf'[i - 1] = str[i]

\* the key id the tables give to the sequence of entry n of the generic
\* table: that of the termcap table if it lists the sequence as well
KeyIdOf(n) ==
  LET caps == { i \in 1 .. Len(key_cap) : key_cap[i].string = key_map[n].string }
  IN IF caps = {} THEN key_map[n].num
     ELSE key_cap[CHOOSE i \in caps : \A j \in caps : i <= j].num

\* C3: when the bytes of a generic-table sequence of length >= 3 starting
\* with ESC O, ESC [ or ESC ] are read by fetchKeyCode, nothing is
\* consumed or enqueued while only a part of it (such as the first two
\* bytes) is buffered, the only event enqueued is the key id of the
\* sequence, and fetchKeyCode never enqueues Meta-O, Meta-[ or Meta-].
C3_LongSequenceNotMeta ==
  [][ FetchStep =>
        /\ \A i \in 1 .. Len(Added) :
             Added[i][1] = "push" => Added[i][2] \notin MetaPrefixKeys
        /\ \A n \in LongEntries :
             \A j \in 0 .. (key_map[n].length - 1), m \in 1 .. key_map[n].length :
               ReadsUpTo(key_map[n].string, j, m)
                 => IF m = key_map[n].length
                      THEN Completes(KeyIdOf(n))
                      ELSE KeepsPrefix(key_map[n].string, m) ]_vars

\* ESC [ D was read in two calls and produced the single event Left
C3_Witness ==
  /\ trace = << <<"push", Key_left, 3>> >>
  /\ fkey_queue = <<Key_left>>
  /\ fifo_offset = 0
  /\ elapsed < key_timeout

\* C4 as stated: for every sequence of the generic table, reading its
\* bytes from an empty buffer enqueues exactly its key id and drains the
\* buffer.
C4_EveryTableSequence ==
  [][ (FetchStep /\ ~mouse_support /\ key_cap = <<>>) =>
        \A n \in 1 .. Len(key_map) :
          \A j \in 0 .. (key_map[n].length - 1) :
            ReadsUpTo(key_map[n].string, j, key_map[n].length)
              => Completes(key_map[n].num) ]_vars

\* C4 amended: for every sequence of the generic table other than the
\* two-byte prefixes ESC O, ESC [ and ESC ], reading its bytes from an
\* empty buffer, with mouse reporting disabled, no termcap table and the
\* queue below capacity, enqueues exactly its key id and drains the
\* buffer; while only a part of it is read nothing is enqueued.
C4_TableSequenceDecoded ==
  [][ (FetchStep /\ ~mouse_support /\ key_cap = <<>>) =>
        \A n \in (1 .. Len(key_map)) \ MetaPrefixEntries :
          \A j \in 0 .. (key_map[n].length - 1), m \in 1 .. key_map[n].length :
            ReadsUpTo(key_map[n].string, j, m)
              => IF m = key_map[n].length
                   THEN Completes(key_map[n].num)
                   ELSE KeepsPrefix(key_map[n].string, m) ]_vars

\* ESC [ 1 ~ was read and produced the single event Home
C4_Witness ==
  /\ trace = << <<"push", Key_home, 4>> >>
  /\ fkey_queue = <<Key_home>>
  /\ fifo_offset = 0
  /\ fifo_buf = EmptyBuf
  /\ ~unprocessed_buffer_data


\* C6: a fetchKeyCode call with the queue at capacity reads no byte and
\* changes nothing; a call with the queue below capacity reads the
\* pending bytes of the source in order, at least one if there is any,
\* until the source is empty or the queue is at capacity, so that the
\* bytes not read stay in the source.
C6_BackPressure ==
  [][ FetchStep =>
        IF Len(fkey_queue) >= MAX_QUEUE_SIZE
          THEN UNCHANGED << bufvars, has_pending_input, fkey, key, fkey_queue,
                            elapsed, source, nread, trace >>
          ELSE \E r \in 0 .. Len(source) :
                 /\ source' = SubSeq(source, r + 1, Len(source))
                 /\ nread' = nread + r
                 /\ source # <<>> => r >= 1
                 /\ source' = <<>> \/ Len(fkey_queue') >= MAX_QUEUE_SIZE ]_vars

\* the queue is at capacity while a byte is pending in the source
C6_Witness ==
  /\ Len(fkey_queue) >= MAX_QUEUE_SIZE
  /\ source # <<>>
  /\ nread > 0

\* C7: the events pushed to the queue, in the order of their completion,
\* are the events already dispatched by processQueuedInput, in the order
\* of their press callbacks, followed by the events still queued.
C7_FifoOrder ==
  /\ KeysOf(trace, "push") = KeysOf(trace, "press") \o fkey_queue
  /\ LET ps == OfKind(trace, "push")
     IN \A i, j \in 1 .. Len(ps) : i < j => ps[i][3] <= ps[j][3]

\* two different events were pushed, the first of them was dispatched
C7_Witness ==
  /\ Len(KeysOf(trace, "push")) >= 2
  /\ KeysOf(trace, "push")[1] # KeysOf(trace, "push")[2]
  /\ KeysOf(trace, "press") # <<>>
  /\ fkey_queue # <<>>

\* the callbacks d of one processQueuedInput call on queue q that leaves
\* queue qf follow the press / stop check / release / stop check protocol
RECURSIVE Dispatched(_, _, _)
Dispatched(d, q, qf) ==
  IF d = <<>> THEN q = <<>> /\ qf = <<>>
  ELSE /\ q # <<>>
       /\ d[1] = <<"pop", Head(q)>>
       /\ IF ~ULess(None, Head(q))
            THEN Dispatched(Tail(d), Tail(q), qf)
            ELSE /\ Len(d) >= 3
                 /\ d[2] = <<"press", Head(q)>>
                 /\ d[3][1] = "quit"
                 /\ IF d[3][2]
                      THEN Len(d) = 3 /\ qf = Tail(q)
                      ELSE /\ Len(d) >= 5
                           /\ d[4] = <<"release", Head(q)>>
                           /\ d[5][1] = "quit"
                           /\ IF d[5][2]
                                THEN Len(d) = 5 /\ qf = Tail(q)
                                ELSE Dispatched(SubSeq(d, 6, Len(d)), Tail(q), qf)

\* C8: for every event popped by processQueuedInput that is greater than
\* None the press callback comes first, the release callback follows if
\* and only if the stop signal was not set after the press, and once the
\* stop signal is observed no further event is popped.
C8_PressReleaseProtocol ==
  [][ ProcessStep => Dispatched(disp', fkey_queue, fkey_queue') ]_vars

\* a call stopped after a press, without release, leaving an event queued
C8_Witness ==
  /\ Len(disp) = 3
  /\ disp[2][1] = "press"
  /\ disp[3] = <<"quit", TRUE>>
  /\ fkey_queue # <<>>

\* C9: with mouse reporting enabled, reading the six bytes of the X11
\* report ESC [ M 0x20 0x21 0x21 from an empty buffer invokes the
\* mouse-report callback exactly once, on the sixth byte, pushes nothing
\* to the key queue and ends with fifo_offset = 0.
C9_X11MouseReport ==
  [][ (FetchStep /\ mouse_support) =>
        \A j \in 0 .. 5, m \in 1 .. 6 :
          ReadsUpTo(X11Report, j, m)
            => IF m = 6
                 THEN /\ Added = << <<"mouse", X11mouse, nread'>> >>
                      /\ fkey_queue' = fkey_queue
                      /\ fifo_offset' = 0
                 ELSE KeepsPrefix(X11Report, m) ]_vars

\* the report was dispatched once, nothing was queued, the buffer is empty
C9_Witness ==
  /\ trace = << <<"mouse", X11mouse, 6>> >>
  /\ fkey_queue = <<>>
  /\ fifo_offset = 0
  /\ nread = 6

\* C10: for every code point c of [0x80, 0x10FFFF] with UTF-8 encoding e,
\* UTF8decode(e) = c, and with UTF-8 input enabled reading e into a
\* buffer that holds nothing else enqueues c and consumes the bytes of e.
C10_UTF8RoundTrip ==
  [][ (FetchStep /\ utf8_input) =>
        \A c \in CodePoints :
          \A j \in 0 .. (Len(Encode(c)) - 1) :
            ( /\ ReadsUpTo(Encode(c), j, Len(Encode(c)))
              /\ \A i \in BufIdx : i >= j => fifo_buf[i] = 0 )
              => /\ UTF8decode(Encode(c)) = c
                 /\ Completes(c) ]_vars

\* the four bytes of U+10FFFF were read and decoded
C10_Witness ==
  /\ utf8_input
  /\ trace = << <<"push", 1114111, 4>> >>
  /\ fifo_offset = 0
  /\ fifo_buf = EmptyBuf

\* the key getSingleKey makes of a decoded value
Remap(v) == IF v = 0 THEN Ctrl_space ELSE IF v = 127 THEN Backspace ELSE v

\* C11: with UTF-8 input enabled, reading a proper prefix of the encoding
\* of a code point (fewer bytes than its lead byte requires) into an empty
\* buffer before the key timeout enqueues nothing and keeps the bytes
\* buffered; once the timeout has elapsed the classifier does not answer
\* Incomplete for such a prefix but decodes the truncated bytes and
\* consumes them.
C11_TruncatedUTF8 ==
  [][ (FetchStep /\ utf8_input) =>
        \A c \in CodePoints :
          \A j \in 0 .. (Len(Encode(c)) - 2), m \in 1 .. (Len(Encode(c)) - 1) :
            /\ ReadsUpTo(Encode(c), j, m) => KeepsPrefix(Encode(c), m)
            /\ Holds(SubSeq(Encode(c), 1, m)) =>
                 LET r == getSingleKey(fifo_buf, unprocessed_buffer_data,
                                       TRUE, utf8_input, 0)
                 IN /\ r.key # Incomplete
                    /\ r.key = Remap(UTF8decode(SubSeq(Encode(c), 1, m)))
                    /\ r.buf = EmptyBuf ]_vars

\* C12: no event with the raw value 0 or 127 is ever enqueued, whether
\* the value comes from a single byte, from a UTF-8 decode or from a key
\* table entry: 0 is enqueued as Control+Space, 127 as Backspace.
C12_NoRawNulDel ==
  /\ \A i \in 1 .. Len(fkey_queue) : fkey_queue[i] \notin {0, 127}
  /\ \A i \in 1 .. Len(trace) :
       trace[i][1] = "push" => trace[i][2] \notin {0, 127}

\* C13: in every reachable state a call of clearKeyBuffer leaves the
\* buffer empty (fifo_offset = 0, not in use, every byte zero) and a
\* query of hasUnprocessedInput() right after it answers false.
C13_ClearThenQuery ==
  [][ ClearKeyBuffer =>
        /\ ~unprocessed_buffer_data'
        /\ fifo_offset' = 0
        /\ ~fifo_in_use'
        /\ fifo_buf' = EmptyBuf ]_vars

\* the length of the token the classifier takes from the front of buffer
\* buf with offset off: that of the table entry found, else that of the
\* single or UTF-8 character
TokenLength(buf, off) ==
  IF /\ buf[0] = ESC
     /\ \/ FindKey(key_cap, buf, off, TRUE) # 0
        \/ FindKey(key_map, buf, off, FALSE) # 0
    THEN off
  ELSE IF utf8_input /\ (buf[0] \div 64) * 64 = 192
    THEN IF (buf[0] \div 32) * 32 = 192 THEN 2
         ELSE IF (buf[0] \div 16) * 16 = 224 THEN 3
         ELSE IF (buf[0] \div 8) * 8 = 240 THEN 4
         ELSE 1
  ELSE 1

\* C14: whenever getTermcapKey, getKnownKey or getSingleKey consumes a
\* token of length n from the buffer front, the bytes formerly at the
\* positions n .. C-1 sit at 0 .. C-1-n in the same order, the last n
\* positions are zero, and has-unprocessed-data is (first remaining byte
\* is non-zero): false when the token was all the array held.
C14_ConsumeShiftsLeft ==
  [][ FetchStep =>
        \A i \in 1 .. Len(disp') :
          disp'[i][1] = "consume" =>
            LET before == disp'[i][3]
                after == disp'[i][5]
                flag == disp'[i][6]
                n == TokenLength(before, disp'[i][4])
            IN /\ n >= 1
               /\ \A p \in BufIdx :
                    after[p] = IF p + n < FIFO_BUF_SIZE THEN before[p + n] ELSE 0
               /\ flag = (after[0] # 0)
               /\ (\A p \in BufIdx : p >= n => before[p] = 0) => ~flag ]_vars

\* one call consumed a one byte token that left a byte behind it, then
\* the byte left, which was all the buffer held
C14_Witness ==
  /\ Len(disp) = 2
  /\ disp[1][1] = "consume"
  /\ disp[1][6]
  /\ disp[1][5][0] = ChLBracket
  /\ disp[2][1] = "consume"
  /\ ~disp[2][6]
  /\ disp[2][5] = EmptyBuf

\* C15: whenever the has-pending-input flag is set, a call of isKeyPressed
\* returns true at once, without polling the source.
C15_PendingShortCircuit ==
  has_pending_input =>
    \A bt \in BOOLEAN, nb \in BOOLEAN :
      LET r == isKeyPressed(has_pending_input, source # <<>>, bt, nb)
      IN r.ret /\ r.polls = 0

\* C16: readKey leaves the blocking mode of stdin as it found it: after a
\* fetchKeyCode call non_blocking_stdin and the O_NONBLOCK bit have the
\* value they had before the call, whether non-blocking input was
\* enabled or disabled.
C16_ReadKeyRestoresMode ==
  [][ FetchStep => UNCHANGED << non_blocking_stdin, stdin_status_flags >> ]_vars

\* C17: with UTF-8 input enabled a malformed first byte (0xF8 .. 0xFF)
\* never makes the NOT_SET sentinel an event: reading such a byte into an
\* empty buffer enqueues the byte as a single-byte code, and NOT_SET is
\* never pushed to the key queue.
C17_MalformedLeadIsRaw ==
  [][ (FetchStep /\ utf8_input) =>
        /\ \A i \in 1 .. Len(Added) :
             Added[i][1] = "push" => Added[i][2] # NOT_SET
        /\ \A b \in MalformedLeads :
             ( /\ ReadsUpTo(<<b>>, 0, 1)
               /\ fifo_buf = EmptyBuf )
               => Completes(b) ]_vars

\* the entries of the name table that carry the id k, None excepted
NamedAs(k) ==
  { i \in 1 .. Len(KeyNameData) :
      KeyNameData[i].num = k /\ KeyNameData[i].num # None }

\* C18: getKeyName(k) returns the name of the first entry of the name
\* table whose id is k, entries with the id None never matching; without
\* such an entry it returns the one character string of k if
\* 33 <= k <= 126 and the empty string otherwise; no decoder state
\* changes.
C18_KeyNameLookup ==
  [][ \A k \in NameQueries :
        GetKeyName(k) =>
          /\ disp'[1][3] =
               IF NamedAs(k) # {}
                 THEN KeyNameData[CHOOSE i \in NamedAs(k) :
                                    \A j \in NamedAs(k) : i <= j].string
               ELSE IF k >= 33 /\ k <= 126 THEN <<k>>
               ELSE <<>>
          /\ UNCHANGED << bufvars, has_pending_input, fkey, key, fkey_queue,
                          elapsed, cfgvars, modevars, source, nread, trace >>
    ]_vars

\* the name of Key_up was asked while a byte was buffered: the first of
\* its two names was returned
C18_Witness ==
  /\ disp = << <<"name", Key_up, <<85, 112>> >> >>
  /\ fifo_offset = 1

\* the number of bytes a key event stands for: the length of its sequence
\* in the key tables, 2 for a Meta-prefix key, else 1 (a single byte)
BytesOfKey(k) ==
  LET caps == { i \in 1 .. Len(key_cap) : key_cap[i].num = k }
      maps == { i \in 1 .. Len(key_map) : key_map[i].num = k }
  IN IF caps # {} THEN key_cap[CHOOSE i \in caps : TRUE].length
     ELSE IF maps # {} THEN key_map[CHOOSE i \in maps : TRUE].length
     ELSE 1

\* the number of bytes the events of a history account for: pushes to the
\* queue, Escape callbacks and X11 mouse reports
RECURSIVE Accounted(_)
Accounted(tr) ==
  IF tr = <<>> THEN 0
  ELSE Accounted(Tail(tr))
         + ( IF Head(tr)[1] = "push" THEN BytesOfKey(Head(tr)[2])
             ELSE IF Head(tr)[1] = "escape" THEN 1
             ELSE IF Head(tr)[1] = "mouse" THEN 6
             ELSE 0 )

\* C19: no byte is decoded twice: in every run the bytes accounted for by
\* the events emitted so far (keys, Escape, mouse reports) are at most
\* the bytes read from the source, so that a byte left in the array by an
\* earlier Escape or Meta-prefix resolution is not part of a later event.
C19_NoByteDecodedTwice == Accounted(trace) <= nread

\* C20: after escapeKeyHandling has resolved a lone Escape or a Meta
\* prefix (ESC O, ESC [, ESC ]) the buffer is cleared: fifo_offset = 0,
\* not in use, has-unprocessed-data false and every byte of the array
\* zero.
C20_ResolutionClearsBuffer ==
  [][ (EscapeKeyHandling /\ Added # <<>>) =>
        /\ fifo_offset' = 0
        /\ ~fifo_in_use'
        /\ ~unprocessed_buffer_data'
        /\ fifo_buf' = EmptyBuf ]_vars

\* the number of entries of kind kd among the first i entries of the history
CountBefore(tr, kd, i) == Len(OfKind(SubSeq(tr, 1, i), kd))

\* C21: events reach the consumer in the order in which their byte
\* sequences were completed: when the mouse-report callback or the
\* escape-key callback is invoked, every key pushed to the queue before
\* it has already had its press callback.
C21_DeliveryInCompletionOrder ==
  \A i \in 1 .. Len(trace) :
    trace[i][1] \in {"mouse", "escape"} =>
      CountBefore(trace, "press", i) = CountBefore(trace, "push", i)

\* the buffer holds a lone ESC byte: one byte is buffered and it is ESC
LoneEscape == fifo_in_use /\ fifo_offset = 1 /\ fifo_buf[0] = ESC

\* C22: a buffered lone ESC byte is never dropped without an event: a
\* call of escapeKeyHandling, clearKeyBufferOnTimeout or fetchKeyCode made
\* while it is buffered either leaves an ESC-led buffer or invokes a
\* callback or pushes an event (the Escape itself or the sequence the ESC
\* byte starts).
C22_LoneEscapeNotDropped ==
  [][ (LoneEscape /\ (EscapeKeyHandling \/ ClearKeyBufferOnTimeout \/ FetchStep))
        => \/ Added # <<>>
           \/ fifo_offset' >= 1 /\ fifo_buf'[0] = ESC ]_vars

\* the off bytes of buf are a proper prefix of an entry of table
PrefixOfEntry(table, buf, off) ==
  \E n \in 1 .. Len(table) :
    /\ table[n].length > off
    /\ \A i \in 0 .. (off - 1) : buf[i] = table[n].string[i + 1]

\* the off bytes of buf are a proper prefix of a mouse report in the X11,
\* SGR or urxvt format
PrefixOfReport(buf, off) ==
  /\ buf[0] = ESC
  /\ \/ off = 1
     \/ /\ buf[1] = ChLBracket
        /\ \/ off = 2
           \/ buf[2] = ChM /\ off < 6
           \/ buf[2] = ChLess
           \/ /\ buf[2] >= Ch1 /\ buf[2] <= Ch9
              /\ off = 3 \/ (buf[3] >= Ch0 /\ buf[3] <= Ch9)

\* the number of bytes the lead byte b of a UTF-8 character announces
LengthOfLead(b) ==
  IF (b \div 32) * 32 = 192 THEN 2
  ELSE IF (b \div 16) * 16 = 224 THEN 3
  ELSE IF (b \div 8) * 8 = 240 THEN 4
  ELSE 1

\* the off bytes of buf are a proper prefix of a multi-byte UTF-8 character
PrefixOfUTF8(buf, off) == off < LengthOfLead(buf[0])

\* C23: the classifier answers Incomplete only when the buffered bytes
\* are a proper prefix of a known longer sequence: an entry of the termcap
\* or the generic table, a mouse report format if mouse reporting is
\* enabled, or a multi-byte UTF-8 character if UTF-8 input is enabled.
C23_IncompleteOnlyForPrefix ==
  [][ FetchStep =>
        \A i \in 1 .. Len(disp') :
          disp'[i][1] = "incomplete" =>
            LET buf == disp'[i][3]
                off == disp'[i][4]
            IN \/ PrefixOfEntry(key_cap, buf, off)
               \/ PrefixOfEntry(key_map, buf, off)
               \/ mouse_support /\ PrefixOfReport(buf, off)
               \/ utf8_input /\ PrefixOfUTF8(buf, off) ]_vars

\* the state a fetchKeyCode call would start from if the array held no
\* byte at all
CleanSnapshot == [Snapshot EXCEPT !.buf = EmptyBuf]

\* C24: a stale prefix never takes part in the interpretation of later
\* input: once a prefix has been resolved or discarded, so that no byte
\* is buffered (fifo_offset = 0), a fetchKeyCode call enqueues the events
\* and keeps the bytes it would enqueue and keep with an array of zeros.
C24_StalePrefixUnused ==
  [][ \A ov \in 0 .. MaxOverRead :
        (FetchKeyCode(ov) /\ fifo_offset = 0 /\ Len(fkey_queue) < MAX_QUEUE_SIZE)
          => LET clean == parseKeyBuffer(CleanSnapshot, mouse_support,
                                         utf8_input, key_cap, ov)
             IN /\ fkey_queue' = clean.queue
                /\ fifo_offset' = clean.off ]_vars

\* the entries of table whose sequence is exactly the off bytes of buf
ExactEntries(table, buf, off) ==
  { n \in 1 .. Len(table) :
      /\ table[n].length = off
      /\ \A i \in 1 .. off : table[n].string[i] = buf[i - 1] }

\* the off bytes of buf have the form of a complete mouse report
MatchesReport(buf, off) ==
  /\ buf[1] = ChLBracket
  /\ \/ buf[2] = ChM /\ off >= 6
     \/ buf[2] = ChLess /\ off >= 9 /\ BufAt(buf, off - 1) \in {ChM, Chm}
     \/ /\ buf[2] \in Ch1 .. Ch9 /\ buf[3] \in Ch0 .. Ch9
        /\ off >= 9 /\ BufAt(buf, off - 1) = ChM

\* buf without its first n bytes, zeros behind
Dropped(buf, n) ==
  [p \in BufIdx |-> IF p + n < FIFO_BUF_SIZE THEN buf[p + n] ELSE 0]

\* C25: for an ESC-led buffer the first match in the order mouse
\* protocol, termcap table, generic table wins: a buffer in the form of a
\* mouse report gives a mouse id and is left as it is, even if a table
\* lists it; else a sequence of the termcap table gives the id of its
\* first termcap entry, even if the generic table lists it too; else a
\* sequence of the generic table gives its generic id (Incomplete for
\* ESC O, ESC [ and ESC ]); the table hits consume exactly the matched
\* bytes; with no match at all, before the timeout, the answer is
\* Incomplete and nothing is consumed.
C25_FirstMatchWins ==
  [][ FetchStep =>
        \A i \in 1 .. Len(disp') :
          (disp'[i][1] \in {"consume", "incomplete", "report"}
             /\ disp'[i][3][0] = ESC) =>
            LET k == disp'[i][2]
                buf == disp'[i][3]
                off == disp'[i][4]
                after == disp'[i][5]
                caps == ExactEntries(key_cap, buf, off)
                gens == ExactEntries(key_map, buf, off)
                first(S) == CHOOSE n \in S : \A m \in S : n <= m
            IN IF mouse_support /\ MatchesReport(buf, off)
                 THEN k \in MouseKeys /\ after = buf
               ELSE IF caps # {}
                 THEN k = key_cap[first(caps)].num /\ after = Dropped(buf, off)
               ELSE IF gens # {}
                 THEN IF off = 2 /\ buf[1] \in {ChO, ChLBracket, ChRBracket}
                        THEN k = Incomplete /\ after = buf
                        ELSE /\ k = key_map[first(gens)].num
                             /\ after = Dropped(buf, off)
               ELSE k = Incomplete /\ after = buf ]_vars

\* with mouse reporting enabled a buffer that the termcap table lists was
\* reported as an X11 mouse report
C25_Witness ==
  /\ mouse_support
  /\ \E i \in 1 .. Len(disp) :
       /\ disp[i][1] = "report"
       /\ disp[i][2] = X11mouse
       /\ ExactEntries(key_cap, disp[i][3], disp[i][4]) # {}

\* the key ids of the entries of the key tables
TableIds ==
  { key_map[n].num : n \in 1 .. Len(key_map) }
    \cup { key_cap[n].num : n \in 1 .. Len(key_cap) }

\* C26: if the first buffered byte is not ESC the classifier returns no
\* mouse id and no table key id; it answers Incomplete only for a UTF-8
\* lead byte with fewer bytes buffered than the lead announces; any other
\* result is the single byte, or the UTF-8 character decoded from the
\* buffer front, and its bytes, at least one, are consumed.
C26_NonEscapeFront ==
  [][ FetchStep =>
        \A i \in 1 .. Len(disp') :
          (disp'[i][1] \in {"consume", "incomplete", "report"}
             /\ disp'[i][3][0] # ESC) =>
            LET k == disp'[i][2]
                buf == disp'[i][3]
                off == disp'[i][4]
                after == disp'[i][5]
                lead == utf8_input /\ (buf[0] \div 64) * 64 = 192
                n == IF lead THEN LengthOfLead(buf[0]) ELSE 1
            IN /\ k \notin MouseKeys
               /\ k \notin TableIds
               /\ IF k = Incomplete
                    THEN lead /\ off < n /\ after = buf
                    ELSE /\ n >= 1
                         /\ after = Dropped(buf, n)
                         /\ k = IF lead THEN Remap(UTF8decode(CString(buf, 0, n)))
                                ELSE Remap(buf[0]) ]_vars

\* the number of bytes the consumer of mouse reports takes from the front
\* of buf for a report of kind k
ReportLength(buf, k) ==
  IF k = X11mouse THEN 6
  ELSE IF k = Extended_mouse THEN FirstOf(buf, 3, {ChM, Chm}) + 1
  ELSE FirstOf(buf, 2, {ChM}) + 1

\* C27: getMouseProtocolKey changes neither the buffer nor fifo_offset,
\* and after the mouse-report callback has returned parseKeyBuffer sets
\* fifo_offset to the number of buffered bytes the consumer left
\* unprocessed: the bytes buffered before minus the bytes of the report.
C27_MouseResync ==
  [][ FetchStep =>
        \A i \in 1 .. Len(disp') :
          disp'[i][1] = "report" =>
            LET k == disp'[i][2]
                buf == disp'[i][3]
                off == disp'[i][4]
            IN /\ disp'[i][5] = buf
               /\ disp'[i][7] = Dropped(buf, ReportLength(buf, k))
               /\ disp'[i][8] = off - ReportLength(buf, k) ]_vars

C29_OffsetWithinCapacity == fifo_offset \in 0 .. FIFO_BUF_SIZE

\* the buffer has just been filled to its capacity
C29_Witness ==
  /\ fifo_offset = FIFO_BUF_SIZE
  /\ nread = FIFO_BUF_SIZE
  /\ \A i \in BufIdx : fifo_buf[i] = ESC

\* C30: a byte read while fifo_offset = FIFO_BUF_SIZE is dropped
\* silently: a fetchKeyCode call on a full buffer reads the pending bytes
\* and leaves fifo_offset, every byte of the array, the flags of the
\* buffer, the queue and the history as they were.
C30_AppendRefusedAtCapacity ==
  [][ ( /\ FetchStep
        /\ fifo_offset = FIFO_BUF_SIZE
        /\ source # <<>>
        /\ Len(fkey_queue) < MAX_QUEUE_SIZE )
        => /\ nread' = nread + Len(source)
           /\ source' = <<>>
           /\ fifo_offset' = FIFO_BUF_SIZE
           /\ fifo_buf' = fifo_buf
           /\ UNCHANGED << fifo_in_use, unprocessed_buffer_data, fkey_queue,
                           key, trace >> ]_vars

\* a byte other than ESC was read on a full buffer and is not in it
C30_Witness ==
  /\ nread = FIFO_BUF_SIZE + 1
  /\ plan = <<>>
  /\ source = <<>>
  /\ fifo_offset = FIFO_BUF_SIZE
  /\ \A i \in BufIdx : fifo_buf[i] = ESC
  /\ elapsed = 0

\* the buffer has a zero byte among its FIFO_BUF_SIZE bytes
HasNul(buf) == \E i \in BufIdx : buf[i] = 0

\* the buffers whose length a fetchKeyCode call computed for fifo_offset:
\* the buffer a classified key left and the buffer the consumer of a
\* mouse report left
Recomputed(d) ==
  { d[i][5] : i \in { j \in 1 .. Len(d) : d[j][1] = "consume" } }
    \cup { d[i][7] : i \in { j \in 1 .. Len(d) : d[j][1] = "report" } }

\* C31: whenever fifo_offset is recomputed as the length of the buffered
\* data, after a key is enqueued or a mouse report is dispatched, the
\* buffer has a zero byte within its FIFO_BUF_SIZE bytes, and what
\* fetchKeyCode does is the same however far a length computation would
\* run behind the array.
C31_LengthWithinBuffer ==
  [][ FetchStep
        => /\ \A b \in Recomputed(disp') : HasNul(b)
           /\ \A ov \in 0 .. MaxOverRead :
                parseKeyBuffer(Snapshot, mouse_support, utf8_input, key_cap, ov)
                  = parseKeyBuffer(Snapshot, mouse_support, utf8_input,
                                   key_cap, 0) ]_vars

\* a buffer filled to capacity with non-zero bytes has been resolved
C31_Witness ==
  \E i \in 1 .. Len(disp) :
    /\ disp[i][1] \in {"consume", "report"}
    /\ disp[i][4] = FIFO_BUF_SIZE
    /\ ~HasNul(disp[i][3])

\* C32: between operations every buffer byte at an index >= fifo_offset
\* is zero and fifo_offset is the number of leading non-zero bytes of the
\* buffer.
C32_BufferShape ==
  /\ \A i \in BufIdx : i >= fifo_offset => fifo_buf[i] = 0
  /\ fifo_offset = stringLength(fifo_buf, 0)

\* C33: the key queue never holds a sentinel or a mouse key id: none of
\* its members is None, Incomplete, NOT_SET, X11mouse, Extended_mouse or
\* Urxvt_mouse.
C33_NoSentinelInQueue ==
  \A i \in 1 .. Len(fkey_queue) :
    fkey_queue[i] \notin ({None, Incomplete, NOT_SET} \cup MouseKeys)

\* C34: clearKeyBufferOnTimeout clears the buffer (offset 0, all bytes
\* zero, in-use false) if and only if the buffer is in use and the key
\* timeout has elapsed; in every other case the buffer, the offset and the
\* flags are unchanged; in no case does it change the key queue.
C34_ClearOnTimeout ==
  [][ ClearKeyBufferOnTimeout
        => /\ fkey_queue' = fkey_queue
           /\ IF fifo_in_use /\ isKeypressTimeout(elapsed)
                THEN /\ fifo_offset' = 0
                     /\ fifo_buf' = EmptyBuf
                     /\ fifo_in_use' = FALSE
                ELSE UNCHANGED << fifo_buf, fifo_offset, fifo_in_use,
                                  unprocessed_buffer_data,
                                  has_pending_input >> ]_vars

\* bytes were read and the buffer is cleared after the timeout, no key
\* having been reported
C34_Witness ==
  /\ nread > 0
  /\ trace = <<>>
  /\ elapsed = key_timeout
  /\ fifo_offset = 0
  /\ fifo_buf = EmptyBuf
  /\ ~fifo_in_use
  /\ fkey_queue = <<>>

\* the records of the kinds ks in what a call did
RecordsOf(d, ks) == { i \in 1 .. Len(d) : d[i][1] \in ks }

\* the number of bytes of the array up to its last non-zero byte
Extent(buf) ==
  LET used == { i \in BufIdx : buf[i] # 0 }
  IN IF used = {} THEN 0
     ELSE 1 + (CHOOSE i \in used : \A j \in used : j <= i)

\* the number of bytes the buffer holds: the bytes counted by the offset
\* or, where bytes lie behind them, the bytes of the array up to the last
\* non-zero one
Buffered(buf, off) == IF off > Extent(buf) THEN off ELSE Extent(buf)

\* C35: a fetchKeyCode call ends.  Every iteration of the inner loop
\* answers Incomplete or dispatches a mouse report, which ends the loop
\* for the byte just read, or it enqueues a key and leaves strictly fewer
\* bytes in the buffer; the outer loop ends when the source has
\* no byte left or the queue is at capacity, and reads no byte after the
\* queue has reached its capacity.
C35_ReadCycleEnds ==
  [][ (FetchStep /\ Len(fkey_queue) < MAX_QUEUE_SIZE)
        => LET pushes == OfKind(Added, "push")
               room == MAX_QUEUE_SIZE - Len(fkey_queue)
           IN /\ \A i \in RecordsOf(disp', {"consume"}) :
                   Buffered(disp'[i][5], stringLength(disp'[i][5], 0))
                     < Buffered(disp'[i][3], disp'[i][4])
              /\ Cardinality(RecordsOf(disp', {"incomplete", "report"}))
                   <= nread' - nread
              /\ source' = <<>> \/ Len(fkey_queue') >= MAX_QUEUE_SIZE
              /\ source' # <<>> => nread' < nread + Len(source)
              /\ Len(pushes) >= room => pushes[room][3] = nread' ]_vars

\* a call has ended at the capacity of the queue with a byte left in the
\* source
C35_Witness ==
  /\ source # <<>>
  /\ Len(fkey_queue) >= MAX_QUEUE_SIZE
  /\ RecordsOf(disp, {"consume"}) # {}

\* the callbacks d end with a complete press / release pair of key k,
\* the stop signal not being set after either
EndsWithPair(d, k) ==
  /\ Len(d) >= 4
  /\ SubSeq(d, Len(d) - 3, Len(d))
       = << <<"press", k>>, <<"quit", FALSE>>,
            <<"release", k>>, <<"quit", FALSE>> >>

\* C36: when processQueuedInput returns early because the stop signal is
\* set, the events not yet popped remain in the queue in their order and
\* the key being dispatched stays the current key; the current key is
\* reset to None only after a complete press / release pair.
C36_EarlyReturnKeepsRest ==
  [][ ProcessStep
        => LET n == Cardinality(RecordsOf(disp', {"pop"}))
               early == \E i \in 1 .. Len(disp') : disp'[i] = <<"quit", TRUE>>
           IN /\ n <= Len(fkey_queue)
              /\ fkey_queue' = SubSeq(fkey_queue, n + 1, Len(fkey_queue))
              /\ n = 0 => key' = key
              /\ early => /\ n >= 1
                          /\ key' = fkey_queue[n]
                          /\ key' # None
              /\ (n >= 1 /\ key' = None)
                   => EndsWithPair(disp', fkey_queue[n]) ]_vars

\* a call returned early after the release callback of the first of two
\* events: the second is still queued, the first is the current key
C36_Witness ==
  /\ Len(disp) = 5
  /\ disp[5] = <<"quit", TRUE>>
  /\ disp[4][1] = "release"
  /\ key = disp[4][2]
  /\ Len(fkey_queue) = 1
  /\ fkey_queue[1] # key

\* a step of isKeyPressed whose second select() was reached
PollStep == IsKeyPressedTimed /\ disp'[1][5] # <<>>

\* C37: when isKeyPressed has to wait (the pending flag is not set and
\* the immediate check found nothing), the second select() waits the
\* caller's blocking_time if the key timeout has elapsed or non-blocking
\* support is unavailable, and read_blocking_time_short otherwise; the
\* call returns true exactly when the source was found readable, and then
\* has_pending_input is set.
C37_WaitSelection ==
  [][ PollStep
        => /\ ~has_pending_input
           /\ disp'[1][5]
                = << IF isKeypressTimeout(elapsed) \/ ~disp'[1][3]
                       THEN disp'[1][2]
                       ELSE read_blocking_time_short >>
           /\ disp'[1][4] <=> (source' # <<>>)
           /\ has_pending_input' = disp'[1][4] ]_vars

\* a byte arrived while a call made within the key timeout waited the
\* short time
C37_Witness ==
  /\ disp = << <<"isKeyPressed", read_blocking_time, TRUE, TRUE,
                 <<read_blocking_time_short>>, 2>> >>
  /\ has_pending_input
  /\ Len(source) = 1
  /\ nread = 1
  /\ elapsed < key_timeout

\* C38: has_pending_input, once set, stays set until parseKeyBuffer reads
\* a byte; every fetchKeyCode call that reads a byte leaves it cleared; a
\* fetchKeyCode call that reads no byte (queue at capacity, or nothing to
\* read) leaves it as it was.
C38_PendingUntilRead ==
  [][ /\ (has_pending_input /\ ~has_pending_input')
           => (FetchStep /\ nread' > nread)
      /\ (FetchStep /\ nread' > nread) => ~has_pending_input'
      /\ ((FetchStep \/ FetchKeyCodeNoRead) /\ nread' = nread)
           => has_pending_input' = has_pending_input ]_vars

\* the flag is set after a fetchKeyCode call whose read() failed while a
\* byte was waiting
C38_Witness ==
  /\ disp = << <<"read", FALSE>> >>
  /\ has_pending_input
  /\ source # <<>>

\* C39: after any sequence of setNonBlockingInput calls, failed ones
\* included, non_blocking_stdin is true exactly when the O_NONBLOCK bit is
\* set in stdin_status_flags.
C39_ModeMatchesFlags == non_blocking_stdin <=> stdin_status_flags

\* C40: in every reachable state fifo_offset > 0 implies fifo_in_use, so
\* a buffer that holds bytes is cleared by clearKeyBufferOnTimeout once
\* the key timeout has elapsed.
C40_OffsetImpliesInUse == fifo_offset > 0 => fifo_in_use

\* unresolved bytes are buffered, the buffer is in use and the key timeout
\* has elapsed
C40_Witness ==
  /\ fifo_offset > 0
  /\ fifo_in_use
  /\ isKeypressTimeout(elapsed)
  /\ fifo_buf[0] = ESC

=============================================================================
